---- MODULE Spec2Model ----
(***************************************************************************)
(* Model of airflow/dags/iot_temperature_processing.py: a four-task        *)
(* Airflow DAG (load_and_filter_data >> clean_temperature >>               *)
(* calculate_extreme_days >> generate_report) over a CSV of temperature    *)
(* readings.  Files under PROCESSED_PATH and the run's XCom table are the  *)
(* state; each task callable is one action.                                *)
(*                                                                         *)
(* Representation:                                                         *)
(*  - a string column value is a sequence of one-character strings, so     *)
(*    that str.lower() is computed character by character;                 *)
(*  - noted_date is the record of the five numeric fields of the text      *)
(*    "DD-MM-YYYY HH:MM"; a text that does not parse has a field out of    *)
(*    range;                                                               *)
(*  - a calendar date is the integer yyyymmdd;                             *)
(*  - an optional value (a file that may not exist, an XCom key that may   *)
(*    not have been pushed, NaT) is <<>> when absent and <<v>> when        *)
(*    present;                                                             *)
(*  - temperatures are integers; a percentile is kept in hundredths of a   *)
(*    degree, which is exact for rank = p*(n-1) with p in {0.05, 0.95};    *)
(*  - a daily mean is the exact fraction sum/cnt.                          *)
(***************************************************************************)
EXTENDS Integers, Sequences, FiniteSets, TLC

VARIABLES raw, filtered_parquet, cleaned_parquet, hottest_csv, coldest_csv,
          report_txt, xcom, state, try_number, error

vars == <<raw, filtered_parquet, cleaned_parquet, hottest_csv, coldest_csv,
          report_txt, xcom, state, try_number, error>>

files == <<filtered_parquet, cleaned_parquet, hottest_csv, coldest_csv, report_txt>>

(***************************************************************************)
(* Bounds of the model.                                                    *)
(***************************************************************************)
\* rows of IOT-temp.csv in a pipeline run
MaxRows == 3
\* rows of cleaned_data.parquet when calculate_extreme_days is checked alone
MaxCleanRows == 6

(***************************************************************************)
(* Program constants.                                                      *)
(***************************************************************************)
\* default_args['retries']
Retries == 1
\* daily_stats.nlargest(5, ...) / nsmallest(5, ...)
TopN == 5
\* quantile(0.05), quantile(0.95), in percent
LowPct == 5
HighPct == 95

Absent == <<>>
Some(v) == <<v>>
Val(o) == o[1]

(***************************************************************************)
(* The DAG: task ids, the XCom keys each task pushes, t1 >> t2 >> t3 >> t4 *)
(***************************************************************************)
T1 == "load_and_filter_data"
T2 == "clean_temperature"
T3 == "calculate_extreme_days"
T4 == "generate_report"
Tasks == {T1, T2, T3, T4}

Keys == {"total_rows", "filtered_rows", "outliers_removed", "p5", "p95",
         "cleaned_rows", "hottest_days", "coldest_days"}

PushedBy(t) ==
    CASE t = T1 -> {"filtered_rows", "total_rows"}
      [] t = T2 -> {"outliers_removed", "p5", "p95", "cleaned_rows"}
      [] t = T3 -> {"hottest_days", "coldest_days"}
      [] OTHER  -> {}

\* mutation: the edge clean_temperature >> calculate_extreme_days left out
Upstream_EdgeMissing(t) ==
    CASE t = T2 -> {T1}
      [] t = T4 -> {T3}
      [] OTHER  -> {}

Upstream(t) ==
    CASE t = T2 -> {T1}
      [] t = T3 -> {T2}
      [] t = T4 -> {T3}
      [] OTHER  -> {}

(***************************************************************************)
(* Column values of the raw CSV.                                           *)
(***************************************************************************)
STR_In  == <<"I", "n">>
STR_in  == <<"i", "n">>
STR_IN  == <<"I", "N">>
STR_Out == <<"O", "u", "t">>
STR_OUT == <<"O", "U", "T">>
OutInValues == {STR_In, STR_in, STR_IN, STR_Out, STR_OUT}

NotedDate(d, m, y, h, mi) == [d |-> d, m |-> m, y |-> y, h |-> h, mi |-> mi]

\* mutation: a lower() that leaves "N" as it is
LowerChar_KeepsN(c) ==
    CASE c = "I" -> "i"
      [] c = "O" -> "o"
      [] c = "U" -> "u"
      [] c = "T" -> "t"
      [] OTHER   -> c

\* str.lower(), one character at a time
LowerChar(c) ==
    CASE c = "I" -> "i"
      [] c = "N" -> "n"
      [] c = "O" -> "o"
      [] c = "U" -> "u"
      [] c = "T" -> "t"
      [] OTHER   -> c

Lower(s) == [i \in DOMAIN s |-> LowerChar(s[i])]

\* strptime(noted_date, '%d-%m-%Y %H:%M') with errors='coerce'
IsLeap(y) == (y % 4 = 0 /\ y % 100 # 0) \/ y % 400 = 0

DaysInMonth(m, y) ==
    CASE m \in {4, 6, 9, 11} -> 30
      [] m = 2               -> IF IsLeap(y) THEN 29 ELSE 28
      [] OTHER               -> 31

\* mutation: a parse that takes any day 1..31 in any month
Parses_AnyDay(nd) ==
    /\ nd.m \in 1..12
    /\ nd.d \in 1..31
    /\ nd.h \in 0..23
    /\ nd.mi \in 0..59

Parses(nd) ==
    /\ nd.m \in 1..12
    /\ nd.d >= 1 /\ nd.d <= DaysInMonth(nd.m, nd.y)
    /\ nd.h \in 0..23
    /\ nd.mi \in 0..59

NaT == Absent

\* pd.to_datetime(..., errors='coerce').dt.date for one value
ToDate(nd) == IF Parses(nd) THEN Some(nd.y * 10000 + nd.m * 100 + nd.d) ELSE NaT

(***************************************************************************)
(* load_and_filter_data: the tabular steps.                                *)
(***************************************************************************)
\* df[df['out/in'].str.lower() == 'in']
FilterOutIn(df) == SelectSeq(df, LAMBDA r : Lower(r.out_in) = STR_in)

\* df_filtered['date'] = pd.to_datetime(df_filtered['noted_date'], ...).dt.date
WithDate(df) ==
    [i \in DOMAIN df |->
        [noted_date |-> df[i].noted_date, temp |-> df[i].temp,
         out_in |-> df[i].out_in, date |-> ToDate(df[i].noted_date)]]

\* df_filtered.dropna(subset=['date'])
DropNaDate(df) == SelectSeq(df, LAMBDA r : r.date # NaT)

\* mutation: the emptiness check left out
NoMatchingRecords_Unchecked(df_filtered) == FALSE

\* if len(df_filtered) == 0: raise AirflowException(...)
NoMatchingRecords(df_filtered) == Len(df_filtered) = 0

(***************************************************************************)
(* clean_temperature: Series.quantile (linear interpolation) and the band. *)
(***************************************************************************)
RECURSIVE Insert(_, _)
Insert(x, s) ==
    IF s = <<>> THEN <<x>>
    ELSE IF x <= Head(s) THEN <<x>> \o s
    ELSE <<Head(s)>> \o Insert(x, Tail(s))

RECURSIVE SortAsc(_)
SortAsc(s) == IF s = <<>> THEN <<>> ELSE Insert(Head(s), SortAsc(Tail(s)))

Column(df, f) == [i \in DOMAIN df |-> df[i][f]]

\* mutation: rank pct*n/100 instead of pct*(n-1)/100
Quantile_RankOverN(temps, pct) ==
    LET n   == Len(temps)
        s   == SortAsc(temps)
        pos == pct * n
        lo  == pos \div 100
        rem == pos % 100
        hi  == IF lo + 1 <= n - 1 THEN lo + 1 ELSE n - 1
    IN  100 * s[lo + 1] + rem * (s[hi + 1] - s[lo + 1])

\* Series.quantile(pct/100), in hundredths: the value at rank pct*(n-1)/100
\* of the sorted sample, interpolated between the bracketing order statistics
Quantile(temps, pct) ==
    LET n   == Len(temps)
        s   == SortAsc(temps)
        pos == pct * (n - 1)
        lo  == pos \div 100
        rem == pos % 100
        hi  == IF lo + 1 <= n - 1 THEN lo + 1 ELSE n - 1
    IN  100 * s[lo + 1] + rem * (s[hi + 1] - s[lo + 1])

\* mutation: a band exclusive at both ends
InBand_Exclusive(temp, p5, p95) == 100 * temp > p5 /\ 100 * temp < p95

\* (df['temp'] >= p5) & (df['temp'] <= p95), p5 and p95 in hundredths
InBand(temp, p5, p95) == 100 * temp >= p5 /\ 100 * temp <= p95

CleanBand(df, p5, p95) == SelectSeq(df, LAMBDA r : InBand(r.temp, p5, p95))

(***************************************************************************)
(* calculate_extreme_days: groupby('date').mean(), nlargest, nsmallest.    *)
(***************************************************************************)
RECURSIVE SumSeq(_)
SumSeq(s) == IF s = <<>> THEN 0 ELSE Head(s) + SumSeq(Tail(s))

\* the mean of a group, as the exact fraction sum/cnt
Mean(temps) == [sum |-> SumSeq(temps), cnt |-> Len(temps)]

AvgLess(a, b) == a.sum * b.cnt < b.sum * a.cnt

\* df.groupby('date')['temp'].mean().reset_index(): one row per distinct date,
\* in ascending order of date
GroupByDateMean(df) ==
    LET dates == SortAsc([i \in DOMAIN df |-> Val(df[i].date)])
        keys  == SelectSeq([i \in DOMAIN dates |-> <<i, dates[i]>>],
                           LAMBDA p : p[1] = 1 \/ dates[p[1] - 1] # p[2])
    IN  [i \in DOMAIN keys |->
            [date     |-> Some(keys[i][2]),
             avg_temp |-> Mean(Column(SelectSeq(df, LAMBDA r : Val(r.date) = keys[i][2]),
                                      "temp"))]]

RemoveAt(s, i) == SubSeq(s, 1, i - 1) \o SubSeq(s, i + 1, Len(s))

\* a ranks before b: larger first for nlargest, smaller first for nsmallest
Before(a, b, largest) == IF largest THEN AvgLess(b, a) ELSE AvgLess(a, b)

\* keep='first': the earliest row among those nothing ranks before
FirstBest(ds, largest) ==
    CHOOSE i \in DOMAIN ds :
        /\ \A j \in DOMAIN ds : ~Before(ds[j].avg_temp, ds[i].avg_temp, largest)
        /\ \A j \in 1..(i - 1) : Before(ds[i].avg_temp, ds[j].avg_temp, largest)

RECURSIVE SelectN(_, _, _)
SelectN(ds, n, largest) ==
    IF n = 0 \/ ds = <<>> THEN <<>>
    ELSE LET i == FirstBest(ds, largest)
         IN  <<ds[i]>> \o SelectN(RemoveAt(ds, i), n - 1, largest)

\* daily_stats.nlargest(n, 'avg_temp')
NLargest(ds, n) == SelectN(ds, n, TRUE)

\* mutation: nlargest called where nsmallest is meant
NSmallest_Largest(ds, n) == SelectN(ds, n, TRUE)

\* daily_stats.nsmallest(n, 'avg_temp')
NSmallest(ds, n) == SelectN(ds, n, FALSE)

(***************************************************************************)
(* Inputs of the model: the readings a raw CSV row is drawn from.          *)
(***************************************************************************)
D1  == NotedDate(1, 1, 2026, 10, 0)
D2  == NotedDate(2, 1, 2026, 11, 30)
Bad == NotedDate(31, 2, 2026, 10, 0)
NotedDates == {D1, D2, Bad}
Temps == {30, 32, 99}

Reading(oi, nd, t) == [noted_date |-> nd, temp |-> t, out_in |-> oi]

\* one factor at a time around the reading In / D1 / 30: every temperature,
\* every noted_date, every spelling of out/in
Readings ==
    {Reading(STR_In, D1, t) : t \in Temps}
    \cup {Reading(STR_In, nd, 30) : nd \in NotedDates}
    \cup {Reading(oi, D1, 32) : oi \in OutInValues}

SeqsUpTo(S, n) == UNION {[1..k -> S] : k \in 0..n}

RawInputs == SeqsUpTo(Readings, MaxRows)

(***************************************************************************)
(* Airflow task instances: states, retries, XCom.                          *)
(***************************************************************************)
NoFacts == [k \in Keys |-> Absent]

\* a task that raised is retried while try_number <= retries
Raise(t, kind) ==
    /\ state' = [state EXCEPT ![t] = IF try_number[t] <= Retries
                                     THEN "up_for_retry" ELSE "failed"]
    /\ error' = [error EXCEPT ![t] = kind]
    /\ UNCHANGED <<raw, try_number>>

Return(t) ==
    /\ state' = [state EXCEPT ![t] = "success"]
    /\ UNCHANGED <<raw, try_number, error>>

\* the write steps numbered 1.. of a callable: step k is done when the
\* callable did not fail at step k or before (fail = 0: no step failed)
Done(k, fail) == fail = 0 \/ fail > k

Finish(t, fail) == IF fail = 0 THEN Return(t) ELSE Raise(t, "IOError")

Push(x, key, value) == [x EXCEPT ![key] = Some(value)]

\* the scheduler starts a task whose upstream tasks all succeeded
\* (trigger rule all_success); a starting task instance clears its XComs
Start(t) ==
    /\ state[t] \in {"none", "up_for_retry"}
    /\ \A u \in Upstream(t) : state[u] = "success"
    /\ state' = [state EXCEPT ![t] = "running"]
    /\ try_number' = [try_number EXCEPT ![t] = @ + 1]
    /\ error' = [error EXCEPT ![t] = "none"]
    /\ xcom' = [k \in Keys |-> IF k \in PushedBy(t) THEN Absent ELSE xcom[k]]
    /\ UNCHANGED <<raw, files>>

\* a task with a failed upstream task never runs
UpstreamFailed(t) ==
    /\ state[t] = "none"
    /\ \E u \in Upstream(t) : state[u] \in {"failed", "upstream_failed"}
    /\ state' = [state EXCEPT ![t] = "upstream_failed"]
    /\ UNCHANGED <<raw, files, xcom, try_number, error>>

(***************************************************************************)
(* The task callables.                                                     *)
(***************************************************************************)
\* mutation: the two counts pushed under each other's key
LoadPushes_Swapped(x, df, df_filtered, fail) ==
    LET x1 == IF Done(2, fail) THEN Push(x, "filtered_rows", Len(df)) ELSE x
    IN  IF Done(3, fail) THEN Push(x1, "total_rows", Len(df_filtered)) ELSE x1

\* context['ti'].xcom_push(key='filtered_rows', ...); xcom_push(key='total_rows', ...)
LoadPushes(x, df, df_filtered, fail) ==
    LET x1 == IF Done(2, fail) THEN Push(x, "filtered_rows", Len(df_filtered)) ELSE x
    IN  IF Done(3, fail) THEN Push(x1, "total_rows", Len(df)) ELSE x1

load_and_filter_data(fail) ==
    /\ state[T1] = "running"
    /\ LET df          == raw
           df_in       == FilterOutIn(df)
           df_filtered == DropNaDate(WithDate(df_in))
       IN  IF NoMatchingRecords(df_in)
           THEN /\ fail = 0
                /\ Raise(T1, "NoMatchingRecords")
                /\ UNCHANGED <<files, xcom>>
           ELSE /\ filtered_parquet' = IF Done(1, fail) THEN Some(df_filtered)
                                       ELSE filtered_parquet
                /\ xcom' = LoadPushes(xcom, df, df_filtered, fail)
                /\ Finish(T1, fail)
                /\ UNCHANGED <<cleaned_parquet, hottest_csv, coldest_csv, report_txt>>

\* the four xcom_push calls of clean_temperature
CleanPushes(x, df, df_clean, p5, p95, fail) ==
    LET outliers_removed == Len(df) - Len(df_clean)
        x1 == IF Done(1, fail) THEN Push(x, "outliers_removed", outliers_removed) ELSE x
        x2 == IF Done(2, fail) THEN Push(x1, "p5", p5) ELSE x1
        x3 == IF Done(3, fail) THEN Push(x2, "p95", p95) ELSE x2
    IN  IF Done(4, fail) THEN Push(x3, "cleaned_rows", Len(df_clean)) ELSE x3

clean_temperature(fail) ==
    /\ state[T2] = "running"
    /\ IF filtered_parquet = Absent
       THEN /\ fail = 0
            /\ Raise(T2, "FileNotFoundError")
            /\ UNCHANGED <<files, xcom>>
       ELSE LET df == Val(filtered_parquet)
            IN  IF Len(df) = 0
                THEN /\ fail = 0
                     /\ Raise(T2, "EmptyInput")
                     /\ UNCHANGED <<files, xcom>>
                ELSE LET p5       == Quantile(Column(df, "temp"), LowPct)
                         p95      == Quantile(Column(df, "temp"), HighPct)
                         df_clean == CleanBand(df, p5, p95)
                    IN  /\ xcom' = CleanPushes(xcom, df, df_clean, p5, p95, fail)
                        /\ cleaned_parquet' = IF Done(5, fail) THEN Some(df_clean)
                                              ELSE cleaned_parquet
                        /\ Finish(T2, fail)
                        /\ UNCHANGED <<filtered_parquet, hottest_csv, coldest_csv,
                                       report_txt>>

\* xcom_push(key='hottest_days', ...); xcom_push(key='coldest_days', ...)
ExtremePushes(x, hottest, coldest, fail) ==
    LET x3 == IF Done(3, fail) THEN Push(x, "hottest_days", hottest) ELSE x
    IN  IF Done(4, fail) THEN Push(x3, "coldest_days", coldest) ELSE x3

calculate_extreme_days(fail) ==
    /\ state[T3] = "running"
    /\ IF cleaned_parquet = Absent
       THEN /\ fail = 0
            /\ Raise(T3, "FileNotFoundError")
            /\ UNCHANGED <<files, xcom>>
       ELSE LET df == Val(cleaned_parquet)
            IN  IF Len(df) = 0
                THEN /\ fail = 0
                     /\ Raise(T3, "EmptyInput")
                     /\ UNCHANGED <<files, xcom>>
                ELSE LET daily_stats == GroupByDateMean(df)
                         hottest     == NLargest(daily_stats, TopN)
                         coldest     == NSmallest(daily_stats, TopN)
                    IN  /\ hottest_csv' = IF Done(1, fail) THEN Some(hottest)
                                          ELSE hottest_csv
                        /\ coldest_csv' = IF Done(2, fail) THEN Some(coldest)
                                          ELSE coldest_csv
                        /\ xcom' = ExtremePushes(xcom, hottest, coldest, fail)
                        /\ Finish(T3, fail)
                        /\ UNCHANGED <<filtered_parquet, cleaned_parquet, report_txt>>

\* str.format of a pulled value: None renders as the text None
Render(o) == IF o = Absent THEN "None" ELSE Val(o)

\* f"{x:.2f}" and x/y raise TypeError on None; enumerate(None) raises too
NeedsValue == {"total_rows", "filtered_rows", "p5", "p95", "hottest_days",
               "coldest_days"}

\* (filtered_rows/total_rows)*100 formatted :.2f, in hundredths of a percent
Percent(part, whole) == (2 * 10000 * part + whole) \div (2 * whole)

generate_report(fail) ==
    /\ state[T4] = "running"
    /\ IF \E k \in NeedsValue : xcom[k] = Absent
       THEN /\ fail = 0
            /\ Raise(T4, "TypeError")
            /\ UNCHANGED <<files, xcom>>
       ELSE IF Val(xcom["total_rows"]) = 0
       THEN /\ fail = 0
            /\ Raise(T4, "ZeroDivisionError")
            /\ UNCHANGED <<files, xcom>>
       ELSE LET report ==
                  [total_rows       |-> Render(xcom["total_rows"]),
                   filtered_rows    |-> Render(xcom["filtered_rows"]),
                   pct_filtered     |-> Percent(Val(xcom["filtered_rows"]),
                                                Val(xcom["total_rows"])),
                   p5               |-> Render(xcom["p5"]),
                   p95              |-> Render(xcom["p95"]),
                   outliers_removed |-> Render(xcom["outliers_removed"]),
                   cleaned_rows     |-> Render(xcom["cleaned_rows"]),
                   hottest_days     |-> Render(xcom["hottest_days"]),
                   coldest_days     |-> Render(xcom["coldest_days"])]
            IN  /\ report_txt' = IF Done(1, fail) THEN Some(report) ELSE report_txt
                /\ Finish(T4, fail)
                /\ UNCHANGED <<filtered_parquet, cleaned_parquet, hottest_csv,
                               coldest_csv, xcom>>

(***************************************************************************)
(* A pipeline run: one DAG run over one raw CSV, PROCESSED_PATH empty.     *)
(***************************************************************************)
Fresh ==
    /\ filtered_parquet = Absent
    /\ cleaned_parquet = Absent
    /\ hottest_csv = Absent
    /\ coldest_csv = Absent
    /\ report_txt = Absent
    /\ xcom = NoFacts
    /\ state = [t \in Tasks |-> "none"]
    /\ try_number = [t \in Tasks |-> 0]
    /\ error = [t \in Tasks |-> "none"]

Init ==
    /\ raw \in RawInputs
    /\ Fresh

Schedule == \E t \in Tasks : Start(t) \/ UpstreamFailed(t)

Next ==
    \/ Schedule
    \/ \E fail \in 0..3 : load_and_filter_data(fail)
    \/ \E fail \in 0..5 : clean_temperature(fail)
    \/ \E fail \in 0..4 : calculate_extreme_days(fail)
    \/ \E fail \in 0..1 : generate_report(fail)

Spec == Init /\ [][Next]_vars

(***************************************************************************)
(* calculate_extreme_days applied to a cleaned dataset of up to            *)
(* MaxCleanRows rows spread over up to MaxCleanRows days.                  *)
(***************************************************************************)
Day(k) == NotedDate(k, 1, 2026, 10, 0)

\* the lower of the two temperatures read on day k: it differs from day to
\* day, out of step with the order of the days
DayLow(k) == 30 + ((3 * k) % 7)

\* a cleaned row of day k, at the day's lower temperature or two degrees above
CleanedRow(k, up) ==
    [noted_date |-> Day(k), temp |-> DayLow(k) + up, out_in |-> STR_In,
     date |-> ToDate(Day(k))]

RECURSIVE MaxOf(_)
MaxOf(s) ==
    IF s = <<>> THEN 0
    ELSE LET m == MaxOf(Tail(s)) IN IF Head(s) >= m THEN Head(s) ELSE m

\* the day of each row, rows in any order: a row is of a day already seen or
\* of the next new day
RECURSIVE DayPatterns(_)
DayPatterns(n) ==
    IF n = 0 THEN {<<>>}
    ELSE UNION {{Append(p, d) : d \in 1..(MaxOf(p) + 1)} : p \in DayPatterns(n - 1)}

CleanedRows(p, up) == [i \in DOMAIN p |-> CleanedRow(p[i], up[i])]

InitExtremes ==
    /\ raw = <<>>
    /\ filtered_parquet = Absent
    /\ \E n \in 0..MaxCleanRows :
          \E p \in DayPatterns(n), up \in [1..n -> {0, 2}] :
             cleaned_parquet = Some(CleanedRows(p, up))
    /\ hottest_csv = Absent
    /\ coldest_csv = Absent
    /\ report_txt = Absent
    /\ xcom = NoFacts
    /\ state = [t \in Tasks |-> IF t = T3 THEN "running" ELSE "none"]
    /\ try_number = [t \in Tasks |-> IF t = T3 THEN 1 ELSE 0]
    /\ error = [t \in Tasks |-> "none"]

NextExtremes == \E fail \in 0..4 : calculate_extreme_days(fail)

SpecExtremes == InitExtremes /\ [][NextExtremes]_vars

(***************************************************************************)
(* generate_report applied to a registry holding any subset of the keys.   *)
(***************************************************************************)
SampleDays == <<[date |-> Some(20260102), avg_temp |-> [sum |-> 64, cnt |-> 2]],
                [date |-> Some(20260101), avg_temp |-> [sum |-> 30, cnt |-> 1]]>>

SampleFacts(total) ==
    [k \in Keys |->
        CASE k = "total_rows"       -> total
          [] k = "filtered_rows"    -> 0
          [] k = "outliers_removed" -> 0
          [] k = "p5"               -> 3010
          [] k = "p95"              -> 3190
          [] k = "cleaned_rows"     -> 0
          [] k = "hottest_days"     -> SampleDays
          [] OTHER                  -> SampleDays]

Registries ==
    {[k \in Keys |-> IF k \in present THEN Some(SampleFacts(total)[k]) ELSE Absent] :
        present \in SUBSET Keys, total \in {0, 3}}

InitReport ==
    /\ raw = <<>>
    /\ filtered_parquet = Absent
    /\ cleaned_parquet = Absent
    /\ hottest_csv = Absent
    /\ coldest_csv = Absent
    /\ report_txt = Absent
    /\ xcom \in Registries
    /\ state = [t \in Tasks |-> IF t = T4 THEN "running" ELSE "none"]
    /\ try_number = [t \in Tasks |-> IF t = T4 THEN 1 ELSE 0]
    /\ error = [t \in Tasks |-> "none"]

NextReport == \E fail \in 0..1 : generate_report(fail)

SpecReport == InitReport /\ [][NextReport]_vars

(***************************************************************************)
(* Properties.                                                             *)
(***************************************************************************)
Has(k) == xcom[k] # Absent
Fact(k) == Val(xcom[k])

\* the spellings of out/in that equal "in" once lower-cased
KeptSpellings == {<<"i", "n">>, <<"I", "n">>, <<"i", "N">>, <<"I", "N">>}

\* C1: whenever the facts are written, cleaned_rows <= filtered_rows <= total_rows,
\* total_rows being the raw row count.
C1_RowCountsNonIncreasing ==
    /\ Has("total_rows") => Fact("total_rows") = Len(raw)
    /\ Has("filtered_rows") /\ Has("total_rows")
          => Fact("filtered_rows") <= Fact("total_rows")
    /\ Has("cleaned_rows") /\ Has("filtered_rows")
          => Fact("cleaned_rows") <= Fact("filtered_rows")

C1_Witness ==
    /\ Has("total_rows") /\ Has("filtered_rows") /\ Has("cleaned_rows")
    /\ Fact("cleaned_rows") < Fact("filtered_rows")
    /\ Fact("filtered_rows") < Fact("total_rows")

\* the calendar date written in each noted_date of the inputs that has one
CalendarDate(nd) ==
    CASE nd = D1 -> 20260101
      [] nd = D2 -> 20260102

\* the raw rows that are indoor readings with a date on the calendar, each with
\* its calendar date, in the order of the CSV
ExpectedFiltered ==
    LET kept == SelectSeq(raw, LAMBDA r : /\ r.out_in \in KeptSpellings
                                          /\ r.noted_date \in {D1, D2})
    IN  [i \in DOMAIN kept |->
            [noted_date |-> kept[i].noted_date, temp |-> kept[i].temp,
             out_in |-> kept[i].out_in,
             date |-> Some(CalendarDate(kept[i].noted_date))]]

\* C2: when load_and_filter_data succeeds, the persisted filtered set is exactly
\* the raw rows whose out/in is a spelling of "in" and whose noted_date parses,
\* and filtered_rows is the size of that set (counted after the date drop).
C2_FilteredSetExact ==
    state[T1] = "success" =>
        /\ filtered_parquet = Some(ExpectedFiltered)
        /\ xcom["filtered_rows"] = Some(Len(ExpectedFiltered))

\* an upper-case IN kept, an OUT dropped, an indoor row dropped for its date
C2_Witness ==
    /\ state[T1] = "success"
    /\ \E i \in DOMAIN raw : raw[i].out_in = STR_IN /\ raw[i].noted_date # Bad
    /\ \E i \in DOMAIN raw : raw[i].out_in = STR_OUT
    /\ \E i \in DOMAIN raw : raw[i].out_in \in KeptSpellings /\ raw[i].noted_date = Bad
    /\ Fact("filtered_rows") = 1

\* v is the k-th smallest (k from 0) of the temperatures
IsOrderStat(temps, k, v) ==
    /\ \E i \in DOMAIN temps : temps[i] = v
    /\ Cardinality({i \in DOMAIN temps : temps[i] < v}) <= k
    /\ Cardinality({i \in DOMAIN temps : temps[i] <= v}) > k

\* q, in hundredths, is the value at rank pct*(n-1)/100 interpolated linearly
IsPercentile(temps, pct, q) ==
    LET n == Len(temps)
    IN  \E lo \in 0..(n - 1) :
            /\ 100 * lo <= pct * (n - 1)
            /\ pct * (n - 1) < 100 * (lo + 1)
            /\ \E a, b \in {temps[i] : i \in DOMAIN temps} :
                  /\ IsOrderStat(temps, lo, a)
                  /\ IsOrderStat(temps, IF lo + 1 < n THEN lo + 1 ELSE lo, b)
                  /\ q = 100 * a + (pct * (n - 1) - 100 * lo) * (b - a)

\* C3: when clean_temperature succeeds, the cleaned set is exactly the filtered
\* rows with p5 <= temp <= p95, p5 and p95 being the linear-interpolation
\* percentiles of temp over the whole filtered set, and p5 <= p95.
C3_CleanedIsInclusiveBand ==
    state[T2] = "success" =>
        LET df    == Val(filtered_parquet)
            clean == Val(cleaned_parquet)
            temps == [i \in DOMAIN df |-> df[i].temp]
        IN  /\ IsPercentile(temps, 5, Fact("p5"))
            /\ IsPercentile(temps, 95, Fact("p95"))
            /\ Fact("p5") <= Fact("p95")
            /\ clean = SelectSeq(df, LAMBDA r : /\ Fact("p5") <= 100 * r.temp
                                                /\ 100 * r.temp <= Fact("p95"))
            /\ \A i \in DOMAIN clean : /\ Fact("p5") <= 100 * clean[i].temp
                                       /\ 100 * clean[i].temp <= Fact("p95")
            /\ Fact("cleaned_rows") = Len(clean)
            /\ Fact("outliers_removed") = Len(df) - Len(clean)

\* three rows, an interpolated band that drops the two ends and keeps the middle
C3_Witness ==
    /\ state[T2] = "success"
    /\ Len(Val(filtered_parquet)) = 3
    /\ Len(Val(cleaned_parquet)) = 1
    /\ Fact("p5") % 100 # 0
    /\ Fact("p5") < Fact("p95")

DistinctDates(df) == {df[i].date : i \in DOMAIN df}

\* e is the daily average of its date over the rows of df
IsDailyAverage(e, df) ==
    LET rows == {i \in DOMAIN df : df[i].date = e.date}
    IN  /\ rows # {}
        /\ e.avg_temp.cnt = Cardinality(rows)
        /\ e.avg_temp.sum = SumSeq([i \in DOMAIN df |->
                                      IF i \in rows THEN df[i].temp ELSE 0])

NoDateTwice(l) == \A i, j \in DOMAIN l : l[i].date = l[j].date => i = j

MinOf(a, b) == IF a <= b THEN a ELSE b

\* C4: when calculate_extreme_days succeeds, hottest is sorted by avg_temp
\* descending and coldest ascending, neither holds a date twice, each has
\* min(5, number of distinct dates) entries, and every entry is the mean of temp
\* over the cleaned rows of its date.
C4_ExtremeLists ==
    state[T3] = "success" =>
        LET df      == Val(cleaned_parquet)
            hottest == Fact("hottest_days")
            coldest == Fact("coldest_days")
            n       == MinOf(5, Cardinality(DistinctDates(df)))
        IN  /\ hottest_csv = Some(hottest) /\ coldest_csv = Some(coldest)
            /\ Len(hottest) = n /\ Len(coldest) = n
            /\ NoDateTwice(hottest) /\ NoDateTwice(coldest)
            /\ \A i \in DOMAIN hottest : IsDailyAverage(hottest[i], df)
            /\ \A i \in DOMAIN coldest : IsDailyAverage(coldest[i], df)
            /\ \A i \in 1..(n - 1) :
                  /\ hottest[i].avg_temp.sum * hottest[i + 1].avg_temp.cnt
                        >= hottest[i + 1].avg_temp.sum * hottest[i].avg_temp.cnt
                  /\ coldest[i].avg_temp.sum * coldest[i + 1].avg_temp.cnt
                        <= coldest[i + 1].avg_temp.sum * coldest[i].avg_temp.cnt
            /\ Cardinality(DistinctDates(df)) < 5 =>
                  /\ {hottest[i].date : i \in DOMAIN hottest} = DistinctDates(df)
                  /\ {coldest[i].date : i \in DOMAIN coldest} = DistinctDates(df)

\* more than five dates, of different averages
C4_Witness ==
    /\ state[T3] = "success"
    /\ Cardinality(DistinctDates(Val(cleaned_parquet))) > 5
    /\ Len(Fact("hottest_days")) = 5
    /\ AvgLess(Fact("hottest_days")[5].avg_temp, Fact("hottest_days")[1].avg_temp)
    /\ AvgLess(Fact("coldest_days")[1].avg_temp, Fact("hottest_days")[5].avg_temp)

\* no raw row has an out/in that is a spelling of "in"
NothingIndoor == \A i \in DOMAIN raw : raw[i].out_in \notin KeptSpellings

\* C5: if zero raw rows survive the out/in filter, load_and_filter_data fails with
\* NoMatchingRecords, having persisted no filtered dataset and written neither
\* total_rows nor filtered_rows.
C5_NoMatchingRecordsBeforeWrites ==
    NothingIndoor =>
        /\ filtered_parquet = Absent
        /\ ~Has("total_rows") /\ ~Has("filtered_rows")
        /\ state[T1] # "success"
        /\ try_number[T1] >= 1 /\ state[T1] # "running"
              => /\ state[T1] \in {"up_for_retry", "failed"}
                 /\ error[T1] = "NoMatchingRecords"

C5_Witness ==
    /\ Len(raw) = 3
    /\ \A i \in DOMAIN raw : raw[i].out_in \in {STR_Out, STR_OUT}
    /\ state[T1] = "failed"
    /\ error[T1] = "NoMatchingRecords"

\* C6: generate_report fails, and writes no report, whenever any one of the eight
\* facts is absent from the registry.
C6_AnyMissingFactFails ==
    (try_number[T4] >= 1 /\ state[T4] # "running" /\ \E k \in Keys : ~Has(k)) =>
        /\ state[T4] \in {"up_for_retry", "failed"}
        /\ report_txt = Absent

\* what each task persists, and whether all of it / none of it is there
ArtifactsWritten(t) ==
    CASE t = T1 -> filtered_parquet # Absent
      [] t = T2 -> cleaned_parquet # Absent
      [] t = T3 -> hottest_csv # Absent /\ coldest_csv # Absent
      [] OTHER  -> report_txt # Absent

NoArtifactWritten(t) ==
    CASE t = T1 -> filtered_parquet = Absent
      [] t = T2 -> cleaned_parquet = Absent
      [] t = T3 -> hottest_csv = Absent /\ coldest_csv = Absent
      [] OTHER  -> report_txt = Absent

\* C7: a task that failed has written neither its output nor any of its facts; a
\* task that succeeded has written its output and all of its facts.
C7_NoPartialSuccess ==
    \A t \in Tasks :
        /\ state[t] \in {"up_for_retry", "failed"}
              => NoArtifactWritten(t) /\ \A k \in PushedBy(t) : ~Has(k)
        /\ state[t] = "success"
              => ArtifactsWritten(t) /\ \A k \in PushedBy(t) : Has(k)

\* some indoor row, and no indoor row with a date that parses
DateDropEmpties ==
    /\ \E i \in DOMAIN raw : raw[i].out_in \in KeptSpellings
    /\ \A i \in DOMAIN raw : raw[i].out_in \in KeptSpellings => raw[i].noted_date = Bad

RunOver == \A t \in Tasks : state[t] \in {"success", "failed", "upstream_failed"}

\* C8: a malformed date never fails load_and_filter_data while some row is indoor;
\* when the date drop empties the dataset, clean_temperature fails with EmptyInput
\* (unless load_and_filter_data failed), and the run ends with stage 1 or stage 2
\* failed and without extreme-day lists or report.
C8_EmptiedByDateDrop ==
    /\ (\E i \in DOMAIN raw : raw[i].out_in \in KeptSpellings)
          => error[T1] \in {"none", "IOError"}
    /\ DateDropEmpties =>
          /\ state[T1] = "success" => filtered_parquet = Some(<<>>)
          /\ state[T2] # "success"
          /\ error[T2] \in {"none", "EmptyInput"}
          /\ try_number[T3] = 0 /\ try_number[T4] = 0
          /\ hottest_csv = Absent /\ coldest_csv = Absent /\ report_txt = Absent
          /\ ~Has("hottest_days") /\ ~Has("coldest_days")
          /\ RunOver => \/ state[T1] = "failed"
                        \/ state[T2] = "failed" /\ error[T2] = "EmptyInput"

C8_Witness ==
    /\ DateDropEmpties
    /\ RunOver
    /\ state[T1] = "success"
    /\ Fact("filtered_rows") = 0
    /\ state[T2] = "failed" /\ error[T2] = "EmptyInput"
    /\ state[T3] = "upstream_failed" /\ state[T4] = "upstream_failed"

Predecessor(t) ==
    CASE t = T2 -> {T1}
      [] t = T3 -> {T2}
      [] t = T4 -> {T3}
      [] OTHER  -> {}

\* C9: a task has started only if its predecessor succeeded and persisted its
\* output, no two tasks are running at once, and a task whose predecessor failed
\* has never started.
C9_StrictlySequential ==
    /\ \A t, u \in Tasks : state[t] = "running" /\ state[u] = "running" => t = u
    /\ \A t \in Tasks : \A u \in Predecessor(t) :
          /\ try_number[t] >= 1 => state[u] = "success" /\ ArtifactsWritten(u)
          /\ state[u] \in {"failed", "upstream_failed"} => try_number[t] = 0

C9_Witness ==
    /\ state[T4] = "running"
    /\ try_number[T1] = 2 /\ try_number[T3] = 2

\* C10 as stated: clean_temperature succeeding on a non-empty filtered set leaves
\* at least one row, and calculate_extreme_days never fails with EmptyInput.
C10_CleanedNeverEmpty ==
    /\ (state[T2] = "success" /\ Len(Val(filtered_parquet)) >= 1)
          => Fact("cleaned_rows") >= 1
    /\ error[T3] # "EmptyInput"

\* the filtered set is two rows of different temperatures
TwoDistinct(df) == Len(df) = 2 /\ df[1].temp # df[2].temp

\* C10 amended: clean_temperature succeeding on a non-empty filtered set leaves at
\* least one row unless the filtered set is exactly two rows of different
\* temperatures; then the cleaned set is empty and calculate_extreme_days fails
\* with EmptyInput.
C10_CleanedEmptyOnlyForTwoDistinct ==
    state[T2] = "success" =>
        LET df == Val(filtered_parquet)
        IN  /\ Len(df) >= 1
            /\ Fact("cleaned_rows") = Len(Val(cleaned_parquet))
            /\ (Fact("cleaned_rows") = 0) <=> TwoDistinct(df)
            /\ (error[T3] = "EmptyInput") => TwoDistinct(df)
            /\ (TwoDistinct(df) /\ try_number[T3] >= 1 /\ state[T3] # "running")
                  => error[T3] = "EmptyInput" /\ state[T3] \in {"up_for_retry", "failed"}

C10_Witness ==
    /\ state[T2] = "success"
    /\ TwoDistinct(Val(filtered_parquet))
    /\ Fact("cleaned_rows") = 0
    /\ state[T3] = "failed" /\ error[T3] = "EmptyInput"

====
